---- MODULE Spec2Model ----
(***************************************************************************)
(* Portfolio X-Ray: the auto-healing price fetch (analytics/data_loader),  *)
(* the portfolio builder (analytics/portfolio) and the returns engine      *)
(* (analytics/risk_analysis).                                              *)
(*                                                                         *)
(* Numbers are exact rationals <<numerator, denominator>> with a positive  *)
(* denominator, kept in lowest terms; NaN is the pair <<0, 0>>.            *)
(***************************************************************************)
EXTENDS Integers, Sequences, FiniteSets, TLC

\* ------------------------------------------------------------------ bounds
MaxTickers == 3
MaxDates == 2
MaxRecords == 3
MaxAmount == 3
MaxPrice == 3
MaxWeight == 2
MaxRows == 3
\* the most holdings of a session portfolio and rows of the portfolio editor
MaxHoldings == 2

TickerNames == {"A", "B", "C"}

\* --------------------------------------------------------------- variables
VARIABLES
    pc,               \* which call is in progress and where it stands
    tickers,          \* fetch_price_data: the argument
    working_tickers,  \* fetch_price_data: working list
    dropped_tickers,  \* fetch_price_data: dropped list
    iteration,        \* fetch_price_data: iterations of the for loop started
    fetches,          \* number of yf.download calls made
    response,         \* what the last yf.download response carried, per ticker
    prices,           \* fetch_price_data: the filled table of the iteration that reached line 93
    cleaned_prices,   \* fetch_price_data: table after ffill().dropna()
    tickers_to_remove,\* fetch_price_data: removal list of the last iteration
    last_branch,      \* fetch_price_data: how the last iteration ended
    error,            \* the exception raised, "" when none
    portfolio_records,\* build_portfolio: the argument (caller's list)
    portfolio_df,     \* build_portfolio: the returned frame
    price_table,      \* compute_asset_returns: the argument
    asset_returns,    \* compute_asset_returns result / compute_portfolio_returns argument
    weights,          \* compute_portfolio_returns: the weights argument
    portfolio_returns,\* compute_portfolio_returns: the returned series (values)
    returns_dates,    \* the date index of the portfolio-return series
    quantile,         \* identify_stress_periods: the quantile argument
    stress_dates,     \* identify_stress_periods: the returned dates
    normal_corr,      \* compute_correlation_matrices: first result
    stress_corr,      \* compute_correlation_matrices: second result
    stress_contribution, \* stress_loss_attribution: the returned series
    available_days,   \* display_time_horizon_tab: len(portfolio_returns)
    filtered_horizons,\* display_time_horizon_tab: the horizons that fit
    horizon_df,       \* display_time_horizon_tab: the summary table
    session_portfolio \* st.session_state.portfolio

fetchVars == <<tickers, working_tickers, dropped_tickers, iteration, fetches, response,
               prices, cleaned_prices, tickers_to_remove, last_branch>>
analysisVars == <<returns_dates, quantile, stress_dates, normal_corr, stress_corr,
                  stress_contribution>>
horizonVars == <<available_days, filtered_horizons, horizon_df>>
builderVars == <<portfolio_records, portfolio_df, session_portfolio>>
returnsVars == <<price_table, asset_returns, weights, portfolio_returns, analysisVars,
                 horizonVars>>
vars == <<pc, error, fetchVars, builderVars, returnsVars>>

\* ---------------------------------------------------------------- numbers
NaN == <<0, 0>>

Abs(n) == IF n < 0 THEN 0 - n ELSE n

RECURSIVE Gcd(_, _)
Gcd(a, b) == IF b = 0 THEN a ELSE Gcd(b, a % b)

\* a float value n/d (d # 0), in lowest terms with a positive denominator
Num(n, d) ==
    LET g == Gcd(Abs(n), Abs(d))
        s == IF d < 0 THEN 0 - 1 ELSE 1
    IN  <<(s * n) \div g, (s * d) \div g>>

IsNaN(x) == x[2] = 0

Add(x, y) == IF IsNaN(x) \/ IsNaN(y) THEN NaN
             ELSE Num(x[1] * y[2] + y[1] * x[2], x[2] * y[2])
Sub(x, y) == IF IsNaN(x) \/ IsNaN(y) THEN NaN
             ELSE Num(x[1] * y[2] - y[1] * x[2], x[2] * y[2])
Mul(x, y) == IF IsNaN(x) \/ IsNaN(y) THEN NaN
             ELSE Num(x[1] * y[1], x[2] * y[2])
\* float division: x/0 is inf or NaN; both are carried as NaN here and the
\* inputs are chosen so that no division by zero happens
Div(x, y) == IF IsNaN(x) \/ IsNaN(y) \/ y[1] = 0 THEN NaN
             ELSE Num(x[1] * y[2], x[2] * y[1])
Leq(x, y) == ~IsNaN(x) /\ ~IsNaN(y) /\ x[1] * y[2] <= y[1] * x[2]

\* ------------------------------------------------------------ list helpers
Range(s) == {s[i] : i \in 1..Len(s)}

\* mutant of ListRemove: the head goes, whatever was asked for
ListRemoveHead(s, x) == IF s = <<>> THEN <<>> ELSE Tail(s)

\* list.remove(x): delete the first occurrence
RECURSIVE ListRemove(_, _)
ListRemove(s, x) ==
    IF s = <<>> THEN <<>>
    ELSE IF Head(s) = x THEN Tail(s)
    ELSE <<Head(s)>> \o ListRemove(Tail(s), x)

RECURSIVE SeqsUpTo(_, _)
SeqsUpTo(S, n) ==
    IF n = 0 THEN {<<>>}
    ELSE LET shorter == SeqsUpTo(S, n - 1)
         IN  shorter \cup {Append(s, x) : s \in {t \in shorter : Len(t) = n - 1}, x \in S}

\* ------------------------------------------------------------------ frames
\* A DataFrame: ordered columns, an ordered date index, a series per column
EmptyFrame == [columns |-> <<>>, index |-> <<>>, val |-> <<>>]

\* DataFrame.empty: no rows or no columns
FrameEmpty(df) == df.columns = <<>> \/ df.index = <<>>

\* prices[ticker] = series  (every series of one response has the response's index)
SetColumn(df, ticker, series, idx) ==
    [columns |-> IF ticker \in Range(df.columns) THEN df.columns
                 ELSE Append(df.columns, ticker),
     index   |-> IF df.columns = <<>> THEN idx ELSE df.index,
     val     |-> [c \in Range(df.columns) \cup {ticker} |->
                     IF c = ticker THEN series ELSE df.val[c]]]

\* Series.isna().all()
AllNaN(series) == \A i \in 1..Len(series) : IsNaN(series[i])

\* Series.ffill(): a missing value takes the last value before it
RECURSIVE FfillSeries(_)
FfillSeries(series) ==
    IF Len(series) <= 1 THEN series
    ELSE LET n    == Len(series)
             init == FfillSeries(SubSeq(series, 1, n - 1))
         IN  Append(init, IF IsNaN(series[n]) THEN init[n - 1] ELSE series[n])

\* mutant of Ffill: nothing is filled
FfillNothing(df) == df

\* line 93: DataFrame.ffill()
Ffill(df) == [df EXCEPT !.val = [c \in DOMAIN df.val |-> FfillSeries(df.val[c])]]

\* positions of the rows without a missing value
RECURSIVE CompleteRows(_, _)
CompleteRows(df, i) ==
    IF i > Len(df.index) THEN <<>>
    ELSE (IF \A c \in Range(df.columns) : ~IsNaN(df.val[c][i]) THEN <<i>> ELSE <<>>)
         \o CompleteRows(df, i + 1)

\* mutant of Dropna: rows with a missing value are kept
DropnaKeepsRows(df) == df

\* DataFrame.dropna(): keep the rows in which no column is missing
Dropna(df) ==
    LET keep == CompleteRows(df, 1)
    IN  [columns |-> df.columns,
         index   |-> [k \in 1..Len(keep) |-> df.index[keep[k]]],
         val     |-> [c \in DOMAIN df.val |-> [k \in 1..Len(keep) |-> df.val[c][keep[k]]]]]

\* Series.first_valid_index(): the date of the first non-missing value, 0 for None
RECURSIVE FirstValid(_, _, _)
FirstValid(series, idx, i) ==
    IF i > Len(series) THEN 0
    ELSE IF ~IsNaN(series[i]) THEN idx[i]
    ELSE FirstValid(series, idx, i + 1)

\* valid_start_dates.idxmax(): the first column holding the largest start date
RECURSIVE IdxMax(_, _)
IdxMax(df, cols) ==
    IF Len(cols) = 1 THEN cols[1]
    ELSE LET best == IdxMax(df, SubSeq(cols, 1, Len(cols) - 1))
             last == cols[Len(cols)]
         IN  IF FirstValid(df.val[last], df.index, 1) > FirstValid(df.val[best], df.index, 1)
             THEN last ELSE best

\* ------------------------------------------------------- the data provider
Absent == <<>>

\* what the provider quotes for a field on a date, when it quotes at all
Quote(field, d) == IF field = "Adj Close" THEN <<d, 1>> ELSE <<d + MaxDates, 1>>

\* the series a provider can send for one field over n dates: any pattern of
\* quoted and missing values
FieldSeries(field, n) ==
    {[d \in 1..n |-> IF d \in V THEN Quote(field, d) ELSE NaN] : V \in SUBSET (1..n)}

\* one ticker's block of a response: no price field, a close field alone, or
\* an adjusted-close field with the close field absent or fully quoted
TickerData(n) ==
    {[adj |-> Absent, close |-> c] : c \in {Absent} \cup FieldSeries("Close", n)}
    \cup {[adj |-> a, close |-> c] :
            a \in FieldSeries("Adj Close", n),
            c \in {Absent, [d \in 1..n |-> Quote("Close", d)]}}

\* a non-empty response of yf.download for the requested names
Responses(names) ==
    UNION {{[index |-> [d \in 1..n |-> d], cols |-> c] : c \in [names -> TickerData(n)]} :
             n \in 1..MaxDates}

\* what a response carries for one ticker: no price field at all, a price
\* field (adjusted close before close) without a single value, or prices
Carried(block) ==
    IF block.adj = Absent /\ block.close = Absent THEN "no_field"
    ELSE IF \A d \in 1..Len(IF block.adj # Absent THEN block.adj ELSE block.close) :
               (IF block.adj # Absent THEN block.adj ELSE block.close)[d] = NaN
      THEN "all_missing"
    ELSE "has_data"

Describe(resp) == [t \in DOMAIN resp.cols |-> Carried(resp.cols[t])]

\* -------------------------------------------------- fetch_price_data steps
\* lines 48-55: the single-ticker branch; data["Close"] raises KeyError when
\* neither field is there
SingleKeyError(working, resp) ==
    /\ Len(working) = 1
    /\ resp.cols[working[1]].adj = Absent
    /\ resp.cols[working[1]].close = Absent

\* lines 58-76: the multi-ticker branch, adjusted close first, close second,
\* no column otherwise
RECURSIVE MultiExtract(_, _, _)
MultiExtract(ws, resp, df) ==
    IF ws = <<>> THEN df
    ELSE LET ticker == Head(ws)
             block  == resp.cols[ticker]
             next   == IF block.adj # Absent
                         THEN SetColumn(df, ticker, block.adj, resp.index)
                       ELSE IF block.close # Absent
                         THEN SetColumn(df, ticker, block.close, resp.index)
                       ELSE df
         IN  MultiExtract(Tail(ws), resp, next)

\* lines 45-76
ExtractPrices(working, resp) ==
    IF Len(working) = 1
      THEN LET ticker == working[1]
               block  == resp.cols[ticker]
           IN  IF block.adj # Absent
                 THEN SetColumn(EmptyFrame, ticker, block.adj, resp.index)
                 ELSE SetColumn(EmptyFrame, ticker, block.close, resp.index)
      ELSE MultiExtract(working, resp, EmptyFrame)

\* lines 79-82
RECURSIVE TickersToRemove(_, _)
TickersToRemove(ws, df) ==
    IF ws = <<>> THEN <<>>
    ELSE (IF Head(ws) \notin Range(df.columns) \/ AllNaN(df.val[Head(ws)])
            THEN <<Head(ws)>> ELSE <<>>)
         \o TickersToRemove(Tail(ws), df)

\* mutant of RemoveAll: the flagged tickers stay in the working list
RemoveNone(working, removal) == working

\* lines 84-86, the working list
RECURSIVE RemoveAll(_, _)
RemoveAll(working, removal) ==
    IF removal = <<>> THEN working
    ELSE RemoveAll(ListRemove(working, Head(removal)), Tail(removal))


\* ------------------------------------------------------- fetch_price_data
NoResponse == <<>>

FetchIdle ==
    /\ tickers = <<>>
    /\ working_tickers = <<>>
    /\ dropped_tickers = <<>>
    /\ iteration = 0
    /\ fetches = 0
    /\ response = NoResponse
    /\ prices = EmptyFrame
    /\ cleaned_prices = EmptyFrame
    /\ tickers_to_remove = <<>>
    /\ last_branch = "none"

\* lines 16-23: the argument check and the two lists
FetchEnter ==
    /\ pc = "fetch_call"
    /\ IF tickers = <<>>
         THEN /\ pc' = "raised"
              /\ error' = "ValueError: Ticker list is empty"
         ELSE /\ pc' = "fetch_loop"
              /\ error' = error
    /\ working_tickers' = tickers
    /\ dropped_tickers' = <<>>
    /\ UNCHANGED <<tickers, iteration, fetches, response, prices, cleaned_prices,
                   tickers_to_remove, last_branch>>
    /\ UNCHANGED <<builderVars, returnsVars>>

InLoop == pc = "fetch_loop" /\ iteration < Len(tickers)

\* lines 25-26
FetchAllDropped ==
    /\ InLoop
    /\ working_tickers = <<>>
    /\ iteration' = iteration + 1
    /\ pc' = "raised"
    /\ error' = "ValueError: All assets were dropped due to data issues"
    /\ last_branch' = "all_dropped"
    /\ UNCHANGED <<tickers, working_tickers, dropped_tickers, fetches, response, prices,
                   cleaned_prices, tickers_to_remove>>
    /\ UNCHANGED <<builderVars, returnsVars>>

\* mutant of FetchDownloadFails: a failed download is blamed on the first
\* working ticker, which is dropped before the loop goes round
FetchDownloadFailsRetry ==
    /\ InLoop
    /\ working_tickers # <<>>
    /\ iteration' = iteration + 1
    /\ fetches' = fetches + 1
    /\ last_branch' = "download_failed"
    /\ response' = NoResponse
    /\ dropped_tickers' = Append(dropped_tickers, Head(working_tickers))
    /\ working_tickers' = Tail(working_tickers)
    /\ UNCHANGED <<pc, error, tickers, prices, cleaned_prices, tickers_to_remove>>
    /\ UNCHANGED <<builderVars, returnsVars>>

\* lines 28-39: yf.download raises
FetchDownloadFails ==
    /\ InLoop
    /\ working_tickers # <<>>
    /\ iteration' = iteration + 1
    /\ fetches' = fetches + 1
    /\ pc' = "raised"
    /\ error' = "ValueError: Download failed"
    /\ last_branch' = "download_failed"
    /\ response' = NoResponse
    /\ UNCHANGED <<tickers, working_tickers, dropped_tickers, prices,
                   cleaned_prices, tickers_to_remove>>
    /\ UNCHANGED <<builderVars, returnsVars>>

\* lines 41-42: yf.download returns an empty frame
FetchNoData ==
    /\ InLoop
    /\ working_tickers # <<>>
    /\ iteration' = iteration + 1
    /\ fetches' = fetches + 1
    /\ response' = NoResponse
    /\ pc' = "raised"
    /\ error' = "ValueError: No data returned from Yahoo Finance"
    /\ last_branch' = "no_data"
    /\ UNCHANGED <<tickers, working_tickers, dropped_tickers, prices,
                   cleaned_prices, tickers_to_remove>>
    /\ UNCHANGED <<builderVars, returnsVars>>

\* lines 48-55: a lone ticker with neither field, data["Close"] raises KeyError
FetchKeyError ==
    /\ InLoop
    /\ Len(working_tickers) = 1
    /\ \E resp \in Responses(Range(working_tickers)) :
          /\ SingleKeyError(working_tickers, resp)
          /\ response' = Describe(resp)
    /\ iteration' = iteration + 1
    /\ fetches' = fetches + 1
    /\ pc' = "raised"
    /\ error' = "KeyError: Close"
    /\ last_branch' = "key_error"
    /\ UNCHANGED <<tickers, working_tickers, dropped_tickers, prices,
                   cleaned_prices, tickers_to_remove>>
    /\ UNCHANGED <<builderVars, returnsVars>>

\* lines 78-90: some tickers came back without data; drop them and go round
FetchRemove ==
    /\ InLoop
    /\ working_tickers # <<>>
    /\ \E resp \in Responses(Range(working_tickers)) :
          /\ ~SingleKeyError(working_tickers, resp)
          /\ LET extracted == ExtractPrices(working_tickers, resp)
                 removal   == TickersToRemove(working_tickers, extracted)
             IN  /\ removal # <<>>
                 /\ response' = Describe(resp)
                 /\ tickers_to_remove' = removal
                 /\ dropped_tickers' = dropped_tickers \o removal
                 /\ working_tickers' = RemoveAll(working_tickers, removal)
    /\ iteration' = iteration + 1
    /\ fetches' = fetches + 1
    /\ last_branch' = "remove"
    /\ UNCHANGED <<pc, error, tickers, prices, cleaned_prices>>
    /\ UNCHANGED <<builderVars, returnsVars>>

\* lines 92-112: every ticker has data; fill, intersect, and either return or
\* drop the ticker that starts the latest
FetchEvaluate ==
    /\ InLoop
    /\ working_tickers # <<>>
    /\ \E resp \in Responses(Range(working_tickers)) :
          /\ ~SingleKeyError(working_tickers, resp)
          /\ LET extracted == ExtractPrices(working_tickers, resp)
                 removal   == TickersToRemove(working_tickers, extracted)
                 filled    == Ffill(extracted)
                 cleaned   == Dropna(filled)
                 problematic_asset == IdxMax(filled, filled.columns)
             IN  /\ removal = <<>>
                 /\ response' = Describe(resp)
                 /\ prices' = filled
                 /\ tickers_to_remove' = removal
                 /\ cleaned_prices' = cleaned
                 /\ IF ~FrameEmpty(cleaned)
                      THEN /\ pc' = "returned"
                           /\ last_branch' = "success"
                           /\ UNCHANGED <<working_tickers, dropped_tickers>>
                      ELSE /\ pc' = pc
                           /\ last_branch' = "drop_latest"
                           /\ dropped_tickers' = Append(dropped_tickers, problematic_asset)
                           /\ working_tickers' = ListRemove(working_tickers, problematic_asset)
    /\ iteration' = iteration + 1
    /\ fetches' = fetches + 1
    /\ UNCHANGED <<error, tickers>>
    /\ UNCHANGED <<builderVars, returnsVars>>

\* line 116: the for loop ran out
FetchExhausted ==
    /\ pc = "fetch_loop"
    /\ iteration = Len(tickers)
    /\ pc' = "raised"
    /\ error' = "ValueError: Could not find a common date range for any subset of assets"
    /\ UNCHANGED fetchVars
    /\ UNCHANGED <<builderVars, returnsVars>>

BuilderIdle == portfolio_records = <<>> /\ portfolio_df = <<>> /\ session_portfolio = <<>>

AnalysisIdle ==
    /\ returns_dates = <<>>
    /\ quantile = NaN
    /\ stress_dates = <<>>
    /\ normal_corr = <<>>
    /\ stress_corr = <<>>
    /\ stress_contribution = <<>>

HorizonIdle ==
    /\ available_days = 0
    /\ filtered_horizons = <<>>
    /\ horizon_df = <<>>

ReturnsIdle ==
    /\ price_table = EmptyFrame
    /\ asset_returns = EmptyFrame
    /\ weights = <<>>
    /\ portfolio_returns = <<>>
    /\ AnalysisIdle
    /\ HorizonIdle

InitFetch ==
    /\ pc = "fetch_call"
    /\ error = ""
    /\ tickers \in SeqsUpTo(TickerNames, MaxTickers)
    /\ working_tickers = <<>>
    /\ dropped_tickers = <<>>
    /\ iteration = 0
    /\ fetches = 0
    /\ response = NoResponse
    /\ prices = EmptyFrame
    /\ cleaned_prices = EmptyFrame
    /\ tickers_to_remove = <<>>
    /\ last_branch = "none"
    /\ BuilderIdle
    /\ ReturnsIdle

NextFetch ==
    \/ FetchEnter
    \/ FetchAllDropped
    \/ FetchDownloadFails
    \/ FetchNoData
    \/ FetchKeyError
    \/ FetchRemove
    \/ FetchEvaluate
    \/ FetchExhausted

SpecFetch == InitFetch /\ [][NextFetch]_vars


\* --------------------------------------------------------- build_portfolio
AssetTypes == {"Stock"}

\* the raw records a caller can pass: any ticker, any amount, zero and
\* negative amounts included
RawRecords ==
    [ticker : TickerNames, amount : {Num(a, 1) : a \in (0 - 1)..MaxAmount},
     asset_type : AssetTypes]

\* df["amount"].sum()
RECURSIVE SumAmounts(_)
SumAmounts(records) ==
    IF records = <<>> THEN Num(0, 1)
    ELSE Add(SumAmounts(SubSeq(records, 1, Len(records) - 1)),
             records[Len(records)].amount)

\* mutant of AnyNonPositive: a zero amount passes the validation
AnyNegative(records) ==
    \E i \in 1..Len(records) : ~Leq(Num(0, 1), records[i].amount)

\* line 19: (df["amount"] <= 0).any()
AnyNonPositive(records) ==
    \E i \in 1..Len(records) : Leq(records[i].amount, Num(0, 1))

\* mutant of AllocationPct: the weight is left as a fraction of one
AllocationFraction(amount, total_value) == Div(amount, total_value)

\* line 23: df["amount"] / total_value * 100
AllocationPct(amount, total_value) == Mul(Div(amount, total_value), Num(100, 1))

\* lines 15-25: the frame returned for a valid list, one row per record
PortfolioFrame(records) ==
    LET total_value == SumAmounts(records)
    IN  [i \in 1..Len(records) |->
            [ticker         |-> records[i].ticker,
             amount         |-> records[i].amount,
             asset_type     |-> records[i].asset_type,
             allocation_pct |-> AllocationPct(records[i].amount, total_value)]]

\* lines 5-25
BuildPortfolio ==
    /\ pc = "build_call"
    /\ IF portfolio_records = <<>>
         THEN /\ pc' = "build_raised"
              /\ error' = "ValueError: Portfolio records list is empty."
              /\ UNCHANGED portfolio_df
       ELSE IF AnyNonPositive(portfolio_records)
         THEN /\ pc' = "build_raised"
              /\ error' = "ValueError: Amount Invested need to be positive."
              /\ UNCHANGED portfolio_df
       ELSE /\ pc' = "build_returned"
            /\ error' = error
            /\ portfolio_df' = PortfolioFrame(portfolio_records)
    /\ UNCHANGED <<portfolio_records, session_portfolio>>
    /\ UNCHANGED <<fetchVars, returnsVars>>

InitBuilder ==
    /\ pc = "build_call"
    /\ error = ""
    /\ portfolio_records \in SeqsUpTo(RawRecords, MaxRecords)
    /\ portfolio_df = <<>>
    /\ session_portfolio = <<>>
    /\ FetchIdle
    /\ ReturnsIdle

NextBuilder == BuildPortfolio

SpecBuilder == InitBuilder /\ [][NextBuilder]_vars


\* --------------------------------------------------- compute_asset_returns
\* column lists without a repeated ticker
ColumnLists(names, n) ==
    {cols \in SeqsUpTo(names, n) : \A i, j \in 1..Len(cols) : cols[i] = cols[j] => i = j}

\* frames over the given column lists with rows 1..n and cells from values
FramesOver(colLists, n, values) ==
    UNION {{[columns |-> cols, index |-> [d \in 1..n |-> d], val |-> v] :
              v \in [Range(cols) -> [1..n -> values]]} : cols \in colLists}

\* cleaned price tables: positive prices and no missing value, from no date
\* to MaxRows dates and from no column to two
PriceTables ==
    UNION {FramesOver(ColumnLists({"A", "B"}, 2), n, {Num(q, 1) : q \in 1..MaxPrice}) :
             n \in 0..MaxRows}

\* mutant of PctChange: the change is left undivided by the previous price
PctChangeAbsolute(df) ==
    [df EXCEPT !.val = [c \in DOMAIN df.val |->
        [i \in 1..Len(df.index) |->
            IF i = 1 THEN NaN ELSE Sub(df.val[c][i], df.val[c][i - 1])]]]

\* DataFrame.pct_change(): value / previous value - 1, nothing before the first
PctChange(df) ==
    [df EXCEPT !.val = [c \in DOMAIN df.val |->
        [i \in 1..Len(df.index) |->
            IF i = 1 THEN NaN
            ELSE Sub(Div(df.val[c][i], df.val[c][i - 1]), Num(1, 1))]]]

\* lines 4-16
ComputeAssetReturns ==
    /\ pc = "returns_call"
    /\ IF FrameEmpty(price_table)
         THEN /\ pc' = "returns_raised"
              /\ error' = "ValueError: Price data is empty"
              /\ UNCHANGED asset_returns
       ELSE LET returns == Dropna(PctChange(price_table))
            IN  IF FrameEmpty(returns)
                  THEN /\ pc' = "returns_raised"
                       /\ error' = "ValueError: Returns data is empty"
                       /\ UNCHANGED asset_returns
                  ELSE /\ pc' = "returns_returned"
                       /\ error' = error
                       /\ asset_returns' = returns
    /\ UNCHANGED <<price_table, weights, portfolio_returns, analysisVars, horizonVars>>
    /\ UNCHANGED <<fetchVars, builderVars>>

InitAssetReturns ==
    /\ pc = "returns_call"
    /\ error = ""
    /\ price_table \in PriceTables
    /\ asset_returns = EmptyFrame
    /\ weights = <<>>
    /\ portfolio_returns = <<>>
    /\ AnalysisIdle
    /\ HorizonIdle
    /\ FetchIdle
    /\ BuilderIdle

NextAssetReturns == ComputeAssetReturns

SpecAssetReturns == InitAssetReturns /\ [][NextAssetReturns]_vars

\* ----------------------------------------------- compute_portfolio_returns
\* returns tables as compute_asset_returns hands them on: at least one
\* column and one date, no missing value
ReturnTables ==
    UNION {FramesOver(ColumnLists({"A", "B"}, 2) \ {<<>>}, n,
                      {Num(k, 2) : k \in (0 - 1)..1}) : n \in 1..MaxDates}

\* weights in percent, indexed by any set of tickers
WeightSeries ==
    UNION {[S -> {Num(50 * k, 1) : k \in 0..MaxWeight}] : S \in SUBSET TickerNames}

\* Series.reindex(labels): labels missing from the series become NaN, labels
\* of the series not asked for are left out
Reindex(series, labels) ==
    [c \in Range(labels) |-> IF c \in DOMAIN series THEN series[c] ELSE NaN]

\* one row of DataFrame.dot(series): the sum of products in column order
RECURSIVE DotRow(_, _, _, _)
DotRow(df, series, i, cols) ==
    IF cols = <<>> THEN Num(0, 1)
    ELSE Add(DotRow(df, series, i, SubSeq(cols, 1, Len(cols) - 1)),
             Mul(df.val[cols[Len(cols)]][i], series[cols[Len(cols)]]))

\* lines 19-31
PortfolioReturns(returns, w) ==
    LET aligned == Reindex(w, returns.columns)
        scaled  == [c \in DOMAIN aligned |-> Div(aligned[c], Num(100, 1))]
    IN  [i \in 1..Len(returns.index) |-> DotRow(returns, scaled, i, returns.columns)]

ComputePortfolioReturns ==
    /\ pc \in {"dot_call", "analysis_returns"}
    /\ pc' = IF pc = "dot_call" THEN "dot_returned" ELSE "analysis_stress"
    /\ portfolio_returns' = PortfolioReturns(asset_returns, weights)
    /\ returns_dates' = asset_returns.index
    /\ UNCHANGED <<error, price_table, asset_returns, weights>>
    /\ UNCHANGED <<quantile, stress_dates, normal_corr, stress_corr, stress_contribution>>
    /\ UNCHANGED horizonVars
    /\ UNCHANGED <<fetchVars, builderVars>>

InitPortfolioReturns ==
    /\ pc = "dot_call"
    /\ error = ""
    /\ price_table = EmptyFrame
    /\ asset_returns \in ReturnTables
    /\ weights \in WeightSeries
    /\ portfolio_returns = <<>>
    /\ AnalysisIdle
    /\ HorizonIdle
    /\ FetchIdle
    /\ BuilderIdle

NextPortfolioReturns == ComputePortfolioReturns

SpecPortfolioReturns == InitPortfolioReturns /\ [][NextPortfolioReturns]_vars

\* ------------------------------------------------- identify_stress_periods
\* the values of a series that are not missing, in index order
RECURSIVE ValidValues(_)
ValidValues(series) ==
    IF series = <<>> THEN <<>>
    ELSE (IF IsNaN(Head(series)) THEN <<>> ELSE <<Head(series)>>) \o ValidValues(Tail(series))

\* x put into an ascending sequence
RECURSIVE InsertSorted(_, _)
InsertSorted(sorted, x) ==
    IF sorted = <<>> THEN <<x>>
    ELSE IF Leq(x, Head(sorted)) THEN <<x>> \o sorted
    ELSE <<Head(sorted)>> \o InsertSorted(Tail(sorted), x)

RECURSIVE SortAscending(_)
SortAscending(values) ==
    IF values = <<>> THEN <<>>
    ELSE InsertSorted(SortAscending(Tail(values)), Head(values))

\* Series.quantile(q): missing values are skipped, the rest is sorted, and
\* the value at position q * (n - 1) is interpolated linearly between its
\* two neighbours; NaN when nothing is left
Quantile(series, q) ==
    LET xs   == SortAscending(ValidValues(series))
        n    == Len(xs)
        pos  == Mul(q, Num(n - 1, 1))
        lo   == pos[1] \div pos[2]
        frac == Sub(pos, Num(lo, 1))
    IN  IF n = 0 THEN NaN
        ELSE IF frac[1] = 0 THEN xs[lo + 1]
        ELSE Add(xs[lo + 1], Mul(frac, Sub(xs[lo + 2], xs[lo + 1])))

\* mutant of AtOrBelow: the comparison with the threshold is strict
StrictlyBelow(x, threshold) == Leq(x, threshold) /\ x # threshold

\* line 47: portfolio_returns <= threshold, False for a missing value
AtOrBelow(x, threshold) == Leq(x, threshold)

\* line 47: portfolio_returns[portfolio_returns <= threshold].index
RECURSIVE MaskedIndex(_, _, _, _)
MaskedIndex(series, dates, threshold, i) ==
    IF i > Len(series) THEN <<>>
    ELSE (IF AtOrBelow(series[i], threshold) THEN <<dates[i]>> ELSE <<>>)
         \o MaskedIndex(series, dates, threshold, i + 1)

\* mutant of IdentifyStressPeriods: a stress date is one with a loss of 5%
\* or more, whatever the quantile
IdentifyStressPeriodsFixedLoss ==
    /\ pc \in {"stress_call", "analysis_stress"}
    /\ IF portfolio_returns = <<>>
         THEN /\ pc' = "stress_raised"
              /\ error' = "ValueError: Portfolio returns data is empty"
              /\ UNCHANGED stress_dates
         ELSE /\ pc' = IF pc = "stress_call" THEN "stress_returned" ELSE "analysis_correlation"
              /\ error' = error
              /\ stress_dates' = MaskedIndex(portfolio_returns, returns_dates,
                                             Num(0 - 1, 20), 1)
    /\ UNCHANGED <<price_table, asset_returns, weights, portfolio_returns>>
    /\ UNCHANGED <<returns_dates, quantile, normal_corr, stress_corr, stress_contribution>>
    /\ UNCHANGED horizonVars
    /\ UNCHANGED <<fetchVars, builderVars>>

\* lines 34-49
IdentifyStressPeriods ==
    /\ pc \in {"stress_call", "analysis_stress"}
    /\ IF portfolio_returns = <<>>
         THEN /\ pc' = "stress_raised"
              /\ error' = "ValueError: Portfolio returns data is empty"
              /\ UNCHANGED stress_dates
         ELSE /\ pc' = IF pc = "stress_call" THEN "stress_returned" ELSE "analysis_correlation"
              /\ error' = error
              /\ stress_dates' = MaskedIndex(portfolio_returns, returns_dates,
                                             Quantile(portfolio_returns, quantile), 1)
    /\ UNCHANGED <<price_table, asset_returns, weights, portfolio_returns>>
    /\ UNCHANGED <<returns_dates, quantile, normal_corr, stress_corr, stress_contribution>>
    /\ UNCHANGED horizonVars
    /\ UNCHANGED <<fetchVars, builderVars>>

\* the quantile arguments tried: both ends, the default 0.10 and the median
Quantiles == {Num(0, 1), Num(1, 10), Num(1, 2), Num(1, 1)}

\* return series of up to MaxRows dates, a missing value allowed anywhere;
\* the dates are numbered from 2, as after compute_asset_returns
ReturnSeries ==
    UNION {[1..n -> {NaN} \cup {Num(k, 2) : k \in (0 - 1)..1}] : n \in 0..MaxRows}

InitStress ==
    /\ pc = "stress_call"
    /\ error = ""
    /\ price_table = EmptyFrame
    /\ asset_returns = EmptyFrame
    /\ weights = <<>>
    /\ portfolio_returns \in ReturnSeries
    /\ returns_dates = [i \in 1..Len(portfolio_returns) |-> i + 1]
    /\ quantile \in Quantiles
    /\ stress_dates = <<>>
    /\ normal_corr = <<>>
    /\ stress_corr = <<>>
    /\ stress_contribution = <<>>
    /\ HorizonIdle
    /\ FetchIdle
    /\ BuilderIdle

NextStress == IdentifyStressPeriods

SpecStress == InitStress /\ [][NextStress]_vars

\* -------------------------------------------- compute_correlation_matrices
\* position of a date in an index, 0 when it is not there
RECURSIVE PositionOf(_, _, _)
PositionOf(index, date, i) ==
    IF i > Len(index) THEN 0
    ELSE IF index[i] = date THEN i
    ELSE PositionOf(index, date, i + 1)

\* DataFrame.loc[labels] raises KeyError when a label is not in the index
LocKeyError(df, labels) == \E k \in 1..Len(labels) : PositionOf(df.index, labels[k], 1) = 0

\* DataFrame.loc[labels]: the rows of the labels, in the order of the labels
Loc(df, labels) ==
    [columns |-> df.columns,
     index   |-> labels,
     val     |-> [c \in DOMAIN df.val |->
                    [k \in 1..Len(labels) |-> df.val[c][PositionOf(df.index, labels[k], 1)]]]]

RECURSIVE SumSeq(_)
SumSeq(values) ==
    IF values = <<>> THEN Num(0, 1) ELSE Add(SumSeq(Tail(values)), Head(values))

\* n * sum(x*y) - sum(x) * sum(y): n*n times the covariance of two columns
CoMoment(x, y) ==
    Sub(Mul(Num(Len(x), 1), SumSeq([i \in 1..Len(x) |-> Mul(x[i], y[i])])),
        Mul(SumSeq(x), SumSeq(y)))

\* Pearson correlation of two columns, kept exactly as its sign and its
\* square; the square is NaN when a column has no variance (or a single row)
Pearson(x, y) ==
    LET cxy   == CoMoment(x, y)
        scale == Mul(CoMoment(x, x), CoMoment(y, y))
    IN  IF Len(x) = 0 \/ scale[1] = 0 THEN [sign |-> 0, square |-> NaN]
        ELSE [sign   |-> IF cxy[1] > 0 THEN 1 ELSE IF cxy[1] < 0 THEN 0 - 1 ELSE 0,
              square |-> Div(Mul(cxy, cxy), scale)]

\* DataFrame.corr()
Corr(df) == [a \in Range(df.columns) |-> [b \in Range(df.columns) |->
                Pearson(df.val[a], df.val[b])]]

\* lines 52-69
ComputeCorrelationMatrices ==
    /\ pc \in {"corr_call", "analysis_correlation"}
    /\ IF LocKeyError(asset_returns, stress_dates)
         THEN /\ pc' = "corr_raised"
              /\ error' = "KeyError: not in index"
              /\ UNCHANGED <<normal_corr, stress_corr>>
       ELSE IF FrameEmpty(Loc(asset_returns, stress_dates))
         THEN /\ pc' = "corr_raised"
              /\ error' = "ValueError: No returns data for stress period"
              /\ UNCHANGED <<normal_corr, stress_corr>>
       ELSE /\ pc' = IF pc = "corr_call" THEN "corr_returned" ELSE "analysis_attribution"
            /\ error' = error
            /\ normal_corr' = Corr(asset_returns)
            /\ stress_corr' = Corr(Loc(asset_returns, stress_dates))
    /\ UNCHANGED <<price_table, asset_returns, weights, portfolio_returns>>
    /\ UNCHANGED <<returns_dates, quantile, stress_dates, stress_contribution>>
    /\ UNCHANGED horizonVars
    /\ UNCHANGED <<fetchVars, builderVars>>

\* returns tables of up to MaxRows dates, dated from 2 as after
\* compute_asset_returns
DatedReturnTables ==
    {[t EXCEPT !.index = [i \in 1..Len(t.index) |-> i + 1]] :
        t \in UNION {FramesOver({<<"A">>, <<"A", "B">>}, n,
                                {Num(0 - 1, 2), Num(1, 2)}) : n \in 1..MaxRows}}

\* ascending date lists over the dates 2..MaxRows+2, the last of which is in
\* no table
RECURSIVE AscendingOf(_)
AscendingOf(S) ==
    IF S = {} THEN <<>>
    ELSE LET least == CHOOSE x \in S : \A y \in S : x <= y
         IN  <<least>> \o AscendingOf(S \ {least})

DateLists == {AscendingOf(S) : S \in SUBSET (2..(MaxRows + 2))}

InitCorrelation ==
    /\ pc = "corr_call"
    /\ error = ""
    /\ price_table = EmptyFrame
    /\ asset_returns \in DatedReturnTables
    /\ weights = <<>>
    /\ portfolio_returns = <<>>
    /\ returns_dates = <<>>
    /\ quantile = NaN
    /\ stress_dates \in DateLists
    /\ normal_corr = <<>>
    /\ stress_corr = <<>>
    /\ stress_contribution = <<>>
    /\ HorizonIdle
    /\ FetchIdle
    /\ BuilderIdle

NextCorrelation == ComputeCorrelationMatrices

SpecCorrelation == InitCorrelation /\ [][NextCorrelation]_vars

\* ------------------------------------------------- stress_loss_attribution
\* line 85: DataFrame.mul(weights, axis=1), each column times its weight
MulColumns(df, series) ==
    [c \in Range(df.columns) |-> [k \in 1..Len(df.index) |-> Mul(df.val[c][k], series[c])]]

\* line 88: DataFrame.sum(), the sum of each column without its missing values
SumColumns(val) == [c \in DOMAIN val |-> SumSeq(ValidValues(val[c]))]

InReverseOrder(a, b) == Leq(b, a)

\* line 90: the order of sort_values()
InOrder(a, b) == Leq(a, b)

\* line 90: Series.sort_values(), as a list of (ticker, value); equal values
\* come in any order
SortValues(series) ==
    {[i \in 1..Len(p) |-> [ticker |-> p[i], value |-> series[p[i]]]] :
        p \in {q \in [1..Cardinality(DOMAIN series) -> DOMAIN series] :
                 /\ \A i, j \in DOMAIN q : i # j => q[i] # q[j]
                 /\ \A i, j \in DOMAIN q : i < j => InOrder(series[q[i]], series[q[j]])}}

\* lines 79-88
StressLoss(returns, w, dates) ==
    LET stress_returns == Loc(returns, dates)
        aligned        == Reindex(w, stress_returns.columns)
    IN  SumColumns(MulColumns(stress_returns, aligned))

\* lines 71-90
StressLossAttribution ==
    /\ pc \in {"attribution_call", "analysis_attribution"}
    /\ IF LocKeyError(asset_returns, stress_dates)
         THEN /\ pc' = "attribution_raised"
              /\ error' = "KeyError: not in index"
              /\ UNCHANGED stress_contribution
       ELSE /\ pc' = "attribution_returned"
            /\ error' = error
            /\ stress_contribution' \in SortValues(StressLoss(asset_returns, weights, stress_dates))
    /\ UNCHANGED <<price_table, asset_returns, weights, portfolio_returns>>
    /\ UNCHANGED <<returns_dates, quantile, stress_dates, normal_corr, stress_corr>>
    /\ UNCHANGED horizonVars
    /\ UNCHANGED <<fetchVars, builderVars>>

\* weights in percent for some of the tickers A and B
AttributionWeights == {w \in WeightSeries : DOMAIN w \subseteq {"A", "B"}}

InitAttribution ==
    /\ pc = "attribution_call"
    /\ error = ""
    /\ price_table = EmptyFrame
    /\ asset_returns \in DatedReturnTables
    /\ weights \in AttributionWeights
    /\ portfolio_returns = <<>>
    /\ returns_dates = <<>>
    /\ quantile = NaN
    /\ stress_dates \in DateLists
    /\ normal_corr = <<>>
    /\ stress_corr = <<>>
    /\ stress_contribution = <<>>
    /\ HorizonIdle
    /\ FetchIdle
    /\ BuilderIdle

NextAttribution == StressLossAttribution

SpecAttribution == InitAttribution /\ [][NextAttribution]_vars

\* ------------------------------------------------ display_time_horizon_tab
\* the longest history, in trading days
MaxDays == 800

\* app.py lines 51-56, in the order of the dict
TIME_HORIZONS ==
    <<[label |-> "1 Month",  days |-> 21],
      [label |-> "6 Months", days |-> 126],
      [label |-> "1 Year",   days |-> 252],
      [label |-> "3 Years",  days |-> 756]>>

FitsOrFills(days, available) == days <= available

\* line 439: v < available_days
Fits(days, available) == days < available

\* line 439: the dict comprehension keeps the order of TIME_HORIZONS
RECURSIVE FilterHorizons(_, _)
FilterHorizons(horizons, available) ==
    IF horizons = <<>> THEN <<>>
    ELSE (IF Fits(Head(horizons).days, available) THEN <<Head(horizons)>> ELSE <<>>)
         \o FilterHorizons(Tail(horizons), available)

\* horizon_risk_summary: one row per horizon asked for, of which the model
\* keeps the label
HorizonRiskSummary(horizons) ==
    [i \in 1..Len(horizons) |-> [Horizon |-> horizons[i].label]]

\* insights.py lines 51-59: .values[0] of the "6 Months" row and of the
\* "3 Years" row, an IndexError when there is no such row
InsightIndexError(df) ==
    \/ ~\E i \in DOMAIN df : df[i].Horizon = "6 Months"
    \/ ~\E i \in DOMAIN df : df[i].Horizon = "3 Years"

\* app.py lines 429-489; of portfolio_returns only the length is used
DisplayTimeHorizonTab ==
    /\ pc = "horizon_tab"
    /\ filtered_horizons' = FilterHorizons(TIME_HORIZONS, available_days)
    /\ IF filtered_horizons' = <<>>
         THEN /\ pc' = "horizon_warned"
              /\ horizon_df' = horizon_df
              /\ error' = error
       ELSE /\ horizon_df' = HorizonRiskSummary(filtered_horizons')
            /\ IF InsightIndexError(horizon_df')
                 THEN /\ pc' = "horizon_raised"
                      /\ error' = "IndexError: index 0 is out of bounds"
               ELSE /\ pc' = "horizon_displayed"
                    /\ error' = error
    /\ UNCHANGED available_days
    /\ UNCHANGED <<price_table, asset_returns, weights, portfolio_returns, analysisVars>>
    /\ UNCHANGED <<fetchVars, builderVars>>

InitHorizon ==
    /\ pc = "horizon_tab"
    /\ error = ""
    /\ price_table = EmptyFrame
    /\ asset_returns = EmptyFrame
    /\ weights = <<>>
    /\ portfolio_returns = <<>>
    /\ AnalysisIdle
    /\ available_days \in 0..MaxDays
    /\ filtered_horizons = <<>>
    /\ horizon_df = <<>>
    /\ FetchIdle
    /\ BuilderIdle

NextHorizon == DisplayTimeHorizonTab

SpecHorizon == InitHorizon /\ [][NextHorizon]_vars

\* ------------------------------ run_portfolio_analysis, after the fetch
\* app.py lines 284-294: the returns of the surviving tickers, from no date
\* to MaxRows dates
AnalysisReturns ==
    DatedReturnTables
       \cup FramesOver({<<"A">>, <<"A", "B">>}, 0, {Num(0 - 1, 2), Num(1, 2)})

\* app.py lines 270-285: allocation_pct of the rows of portfolio_df that were
\* kept, one positive weight per surviving ticker
AnalysisWeights(returns) ==
    {w \in WeightSeries : /\ DOMAIN w = Range(returns.columns)
                          /\ \A c \in DOMAIN w : w[c][1] > 0}

InitAnalysis ==
    /\ pc = "analysis_returns"
    /\ error = ""
    /\ price_table = EmptyFrame
    /\ asset_returns \in AnalysisReturns
    /\ weights \in AnalysisWeights(asset_returns)
    /\ portfolio_returns = <<>>
    /\ returns_dates = <<>>
    /\ quantile \in Quantiles
    /\ stress_dates = <<>>
    /\ normal_corr = <<>>
    /\ stress_corr = <<>>
    /\ stress_contribution = <<>>
    /\ HorizonIdle
    /\ FetchIdle
    /\ BuilderIdle

NextAnalysis ==
    \/ ComputePortfolioReturns
    \/ IdentifyStressPeriods
    \/ ComputeCorrelationMatrices
    \/ StressLossAttribution

SpecAnalysis == InitAnalysis /\ [][NextAnalysis]_vars

\* ---------------------------------------- the session portfolio (app.py)
\* a ticker cell of the editor that was left empty (None)
NoTicker == "<missing>"

\* str.upper() on the strings of the model
Upper(str) ==
    CASE str = "a"  -> "A"
      [] str = "a " -> "A "
      [] str = "b"  -> "B"
      [] OTHER      -> str

\* str.strip() on the strings of the model
Strip(str) ==
    CASE str = " "  -> ""
      [] str = "a " -> "a"
      [] str = "A " -> "A"
      [] OTHER      -> str

\* what the add-asset form can submit; the code does not rely on the
\* widget's minimum, so a zero amount is among them
FormTickers == {" ", "a", "a ", "b"}

FormAmounts == {Num(a, 1) : a \in 0..3}

\* the rows a user can leave in the portfolio editor
EditedRows ==
    [ticker : {"a", "A", "a ", "B"}, amount : {Num(a, 1) : a \in 1..2},
     asset_type : AssetTypes]
      \cup [ticker : {NoTicker, " "}, amount : {Num(1, 1)}, asset_type : AssetTypes]
      \cup [ticker : {"a"}, amount : {NaN, Num(0, 1)}, asset_type : AssetTypes]

\* lines 145-150
RECURSIVE CleanPortfolioData(_)
CleanPortfolioData(df) ==
    IF df = <<>> THEN <<>>
    ELSE (IF /\ Head(df).ticker # NoTicker
             /\ ~IsNaN(Head(df).amount)
             /\ Strip(Head(df).ticker) # ""
             /\ ~Leq(Head(df).amount, Num(0, 1))
            THEN <<Head(df)>> ELSE <<>>) \o CleanPortfolioData(Tail(df))

\* line 724: edited_df["ticker"].str.upper().duplicated().any()
DuplicateTickers(df) ==
    \E i, j \in DOMAIN df : i < j /\ Upper(df[i].ticker) = Upper(df[j].ticker)

\* lines 710-726
ValidationIssues(df) ==
    /\ df # <<>>
    /\ \/ \E i \in DOMAIN df : df[i].ticker = NoTicker \/ Strip(df[i].ticker) = ""
       \/ AnyNonPositive(df)
       \/ DuplicateTickers(df)

\* lines 706-734: the session portfolio after a pass of the editor
EditorUpdate(current, edited) ==
    LET cleaned == CleanPortfolioData(edited)
    IN  IF ValidationIssues(cleaned) THEN current ELSE cleaned

\* lines 737-738: session_state.portfolio_df after a pass of the editor
EditorFrame(current, edited) ==
    LET cleaned == CleanPortfolioData(edited)
    IN  IF ValidationIssues(cleaned) \/ cleaned = <<>> \/ AnyNonPositive(cleaned)
          THEN current ELSE PortfolioFrame(cleaned)

ExistingTickersAsTyped(portfolio) == {portfolio[i].ticker : i \in DOMAIN portfolio}

\* line 106
ExistingTickers(portfolio) == {Upper(portfolio[i].ticker) : i \in DOMAIN portfolio}

\* lines 95-109: the submission passes the validation
Accepted(portfolio, ticker, amount) ==
    /\ Strip(ticker) # ""
    /\ ~Leq(amount, Num(0, 1))
    /\ Upper(Strip(ticker)) \notin ExistingTickers(portfolio)

\* lines 515, 634, 738: build_portfolio on a session portfolio with rows
BuildFails(portfolio) == portfolio # <<>> /\ AnyNonPositive(portfolio)

\* lines 66-118, and the rerun of main with the editor untouched
AddPortfolioAsset ==
    /\ pc = "session"
    /\ Len(session_portfolio) < MaxHoldings
    /\ \E ticker \in FormTickers, amount \in FormAmounts :
          LET added == IF Accepted(session_portfolio, ticker, amount)
                         THEN Append(session_portfolio,
                                     [ticker |-> Upper(Strip(ticker)), amount |-> amount,
                                      asset_type |-> CHOOSE t \in AssetTypes : TRUE])
                         ELSE session_portfolio
          IN  /\ session_portfolio' = EditorUpdate(added, added)
              /\ portfolio_df' = EditorFrame(portfolio_df, added)
    /\ IF BuildFails(session_portfolio')
         THEN pc' = "session_raised" /\ error' = "ValueError: Amount Invested need to be positive."
         ELSE pc' = pc /\ error' = error
    /\ UNCHANGED portfolio_records
    /\ UNCHANGED <<fetchVars, returnsVars>>

\* lines 665-752, called by main when the session portfolio has rows
DisplayPortfolioEditor ==
    /\ pc = "session"
    /\ session_portfolio # <<>>
    /\ \E edited_df \in SeqsUpTo(EditedRows, MaxHoldings) :
          /\ session_portfolio' = EditorUpdate(session_portfolio, edited_df)
          /\ portfolio_df' = EditorFrame(portfolio_df, edited_df)
    /\ IF BuildFails(session_portfolio')
         THEN pc' = "session_raised" /\ error' = "ValueError: Amount Invested need to be positive."
         ELSE pc' = pc /\ error' = error
    /\ UNCHANGED portfolio_records
    /\ UNCHANGED <<fetchVars, returnsVars>>

\* lines 61-64
InitSession ==
    /\ pc = "session"
    /\ error = ""
    /\ BuilderIdle
    /\ FetchIdle
    /\ ReturnsIdle

NextSession == AddPortfolioAsset \/ DisplayPortfolioEditor

SpecSession == InitSession /\ [][NextSession]_vars

\* ------------------------------------------------------------ all calls
\* any one of the calls above, from its own inputs
Init ==
    \/ InitFetch \/ InitBuilder \/ InitAssetReturns \/ InitPortfolioReturns
    \/ InitStress \/ InitCorrelation \/ InitAttribution \/ InitAnalysis
    \/ InitHorizon \/ InitSession

Next ==
    \/ NextFetch \/ NextBuilder \/ NextAssetReturns \/ NextPortfolioReturns
    \/ NextStress \/ NextCorrelation \/ NextAttribution \/ NextAnalysis
    \/ NextHorizon \/ NextSession

Spec == Init /\ [][Next]_vars

\* ------------------------------------------------ claims: fetch_price_data
\* C1: whenever fetch_price_data returns, the returned table is non-empty,
\* holds a value (no NaN) for every surviving ticker on every date, and no
\* column of the table is in the dropped list.
C1_ReturnedTableClean ==
    pc = "returned" =>
        /\ ~FrameEmpty(cleaned_prices)
        /\ Range(working_tickers) \subseteq Range(cleaned_prices.columns)
        /\ \A c \in Range(cleaned_prices.columns) :
              /\ Len(cleaned_prices.val[c]) = Len(cleaned_prices.index)
              /\ \A i \in 1..Len(cleaned_prices.index) : ~IsNaN(cleaned_prices.val[c][i])
        /\ Range(cleaned_prices.columns) \cap Range(dropped_tickers) = {}

\* a return after a drop, from a response whose first date had a gap
C1_Witness ==
    /\ pc = "returned"
    /\ dropped_tickers # <<>>
    /\ Len(cleaned_prices.columns) >= 2
    /\ Len(cleaned_prices.index) < Len(prices.index)

\* C2: every iteration that neither returns nor raises shortens the working
\* list, so after k iterations at most len(tickers) - k tickers are left and
\* the call makes at most len(tickers) iterations and provider fetches.
C2_EachRetryShrinks ==
    [][/\ (pc' = "fetch_loop" /\ iteration' = iteration + 1)
            => Len(working_tickers') < Len(working_tickers)
       /\ pc' = "fetch_loop" => Len(working_tickers') <= Len(tickers') - iteration'
       /\ iteration' <= Len(tickers')
       /\ fetches' <= iteration']_vars

\* the loop was gone round as often as there were tickers, three times
C2_Witness ==
    /\ pc = "fetch_loop"
    /\ Len(tickers) = MaxTickers
    /\ iteration = Len(tickers)
    /\ fetches = Len(tickers)
    /\ working_tickers = <<>>

\* C3: when the provider fetch fails, the call raises at once: no ticker
\* leaves the working list or enters the dropped list, and no fetch follows.
C3_DownloadFailureIsFatal ==
    [][/\ (last_branch' = "download_failed" /\ iteration' = iteration + 1)
            => /\ pc' = "raised"
               /\ error' = "ValueError: Download failed"
               /\ working_tickers' = working_tickers
               /\ dropped_tickers' = dropped_tickers
       /\ last_branch = "download_failed" => fetches' = fetches]_vars

\* the download failed on a retry, after a ticker had been dropped
C3_Witness ==
    /\ pc = "raised"
    /\ last_branch = "download_failed"
    /\ dropped_tickers # <<>>
    /\ working_tickers # <<>>
    /\ fetches >= 2

\* C4: whenever the working list has become empty the call fails with the
\* "all assets dropped" error.
C4_EmptyWorkingSetRaisesAllDropped ==
    (pc \in {"returned", "raised"} /\ tickers # <<>> /\ working_tickers = <<>>)
        => /\ pc = "raised"
           /\ error = "ValueError: All assets were dropped due to data issues"

\* C5: a ticker whose history starts on the last date, next to tickers whose
\* history covers every date, is dropped by the latest-first-valid-date rule
\* and is not a column of the returned table.
ShortHistory(df, t) ==
    /\ Len(df.index) >= 2
    /\ Len(df.columns) >= 2
    /\ t \in Range(df.columns)
    /\ FirstValid(df.val[t], df.index, 1) = df.index[Len(df.index)]
    /\ \A u \in Range(df.columns) \ {t} : FirstValid(df.val[u], df.index, 1) = df.index[1]

C5_ShortHistoryTickerDropped ==
    \A t \in TickerNames :
        (pc \in {"returned", "raised"} /\ last_branch \in {"success", "drop_latest"}
           /\ ShortHistory(prices, t))
        => /\ t \in Range(dropped_tickers)
           /\ t \notin Range(cleaned_prices.columns)

\* C6: in every iteration that receives a response, each working ticker for
\* which the response has no price field, or only missing values, leaves the
\* working list and enters the dropped list, whatever the number of tickers.
C6_UnusableTickersRemoved ==
    [][(iteration' = iteration + 1 /\ response' # NoResponse)
          => \A t \in DOMAIN response' :
                response'[t] # "has_data"
                   => /\ t \notin Range(working_tickers')
                      /\ t \in Range(dropped_tickers')]_vars

\* ------------------------------------------------- claims: build_portfolio
\* C7: build_portfolio raises exactly when the list is empty or some amount
\* is <= 0; otherwise it returns the same records in the same order, each
\* with an allocation_pct, and the caller's records are left as they were.
C7_ValidationAndAnnotation ==
    [][pc = "build_call" =>
        /\ portfolio_records' = portfolio_records
        /\ pc' \in {"build_raised", "build_returned"}
        /\ pc' = "build_raised"
              <=> \/ Len(portfolio_records) = 0
                  \/ \E i \in 1..Len(portfolio_records) :
                        portfolio_records[i].amount[1] <= 0
        /\ pc' = "build_raised" => error' # ""
        /\ pc' = "build_returned" =>
              /\ Len(portfolio_df') = Len(portfolio_records)
              /\ \A i \in 1..Len(portfolio_records) :
                    /\ portfolio_df'[i].ticker = portfolio_records[i].ticker
                    /\ portfolio_df'[i].amount = portfolio_records[i].amount
                    /\ portfolio_df'[i].asset_type = portfolio_records[i].asset_type
                    /\ "allocation_pct" \in DOMAIN portfolio_df'[i]]_vars

\* a list of three records whose only flaw is a zero amount was rejected
C7_Witness ==
    /\ pc = "build_raised"
    /\ Len(portfolio_records) = MaxRecords
    /\ \E i \in 1..Len(portfolio_records) : portfolio_records[i].amount = Num(0, 1)
    /\ \A i \in 1..Len(portfolio_records) : portfolio_records[i].amount[1] >= 0

\* |x - y| <= 1e-9
WithinTolerance(x, y) ==
    LET d == Sub(x, y)
    IN  ~IsNaN(d) /\ Abs(d[1]) <= d[2] \div 1000000000

RECURSIVE SumAllocations(_)
SumAllocations(df) ==
    IF df = <<>> THEN Num(0, 1)
    ELSE Add(SumAllocations(Tail(df)), Head(df).allocation_pct)

\* C8: for a valid portfolio every allocation_pct is amount / sum(amounts)
\* * 100, and the allocations sum to 100 within 1e-9.
C8_AllocationsSumTo100 ==
    pc = "build_returned" =>
        /\ \A i \in 1..Len(portfolio_df) :
              LET pct == portfolio_df[i].allocation_pct
              IN  /\ ~IsNaN(pct)
                  /\ pct[1] * SumAmounts(portfolio_records)[1]
                        = 100 * portfolio_records[i].amount[1] * pct[2]
        /\ WithinTolerance(SumAllocations(portfolio_df), Num(100, 1))

\* three unequal amounts, none of which divides 100 evenly
C8_Witness ==
    /\ pc = "build_returned"
    /\ Len(portfolio_df) = MaxRecords
    /\ \E i, j \in 1..Len(portfolio_df) :
          /\ portfolio_df[i].amount # portfolio_df[j].amount
          /\ portfolio_df[i].allocation_pct[2] > 1

\* ------------------------------------------- claims: compute_asset_returns
\* C9: on a price table of N dates compute_asset_returns returns the dates
\* but the first, N-1 of them, each value the fractional change from the
\* date before; it raises when the table is empty or when N = 1.
C9_ReturnsDropFirstDate ==
    LET N == Len(price_table.index)
    IN  /\ pc \in {"returns_raised", "returns_returned"} =>
              (pc = "returns_raised" <=> (price_table.columns = <<>> \/ N = 0 \/ N = 1))
        /\ pc = "returns_raised" => error # ""
        /\ pc = "returns_returned" =>
              /\ asset_returns.columns = price_table.columns
              /\ asset_returns.index = Tail(price_table.index)
              /\ Len(asset_returns.index) = N - 1
              /\ \A c \in Range(price_table.columns) :
                    /\ Len(asset_returns.val[c]) = N - 1
                    /\ \A i \in 1..(N - 1) :
                          LET r == asset_returns.val[c][i]
                          IN  /\ ~IsNaN(r)
                              /\ r[1] * price_table.val[c][i][1]
                                    = (price_table.val[c][i + 1][1] - price_table.val[c][i][1]) * r[2]

\* two columns over the longest table, with a price that falls and one that rises
C9_Witness ==
    /\ pc = "returns_returned"
    /\ Len(price_table.index) = MaxRows
    /\ Len(asset_returns.columns) = 2
    /\ \E c \in Range(asset_returns.columns) :
          asset_returns.val[c][1][1] < 0 /\ asset_returns.val[c][2][1] > 0

\* the claim's sum for one date: tickers missing on either side add zero
RECURSIVE ClaimedDot(_, _, _, _)
ClaimedDot(df, w, i, cols) ==
    IF cols = <<>> THEN Num(0, 1)
    ELSE Add(ClaimedDot(df, w, i, Tail(cols)),
             IF Head(cols) \in DOMAIN w
               THEN Div(Mul(df.val[Head(cols)][i], w[Head(cols)]), Num(100, 1))
               ELSE Num(0, 1))

\* C10: for every date the portfolio return is the sum over tickers of
\* return * weight / 100, a ticker missing from the weights or from the
\* returns adding zero.
C10_MissingTickersContributeZero ==
    pc = "dot_returned" =>
        /\ Len(portfolio_returns) = Len(asset_returns.index)
        /\ \A i \in 1..Len(asset_returns.index) :
              portfolio_returns[i] = ClaimedDot(asset_returns, weights, i, asset_returns.columns)

\* ----------------------------------------- claims: identify_stress_periods
\* the dates a set of positions stands for
DatesAt(positions) == {returns_dates[i] : i \in positions}

\* C11: identify_stress_periods returns exactly the dates whose return is at
\* or below the q-quantile of the series, a return equal to the threshold
\* included and no larger return included, in index order; it raises on an
\* empty series.
C11_StressDatesAtOrBelowQuantile ==
    LET threshold == Quantile(portfolio_returns, quantile)
        n == Len(portfolio_returns)
    IN  /\ pc \in {"stress_raised", "stress_returned"} => (pc = "stress_raised" <=> n = 0)
        /\ pc = "stress_raised" => error = "ValueError: Portfolio returns data is empty"
        /\ pc = "stress_returned" =>
              /\ Range(stress_dates)
                    = DatesAt({i \in 1..n : ~IsNaN(portfolio_returns[i])
                                  /\ portfolio_returns[i][1] * threshold[2]
                                        <= threshold[1] * portfolio_returns[i][2]})
              /\ \A i \in 1..n : (~IsNaN(threshold) /\ portfolio_returns[i] = threshold)
                                    => returns_dates[i] \in Range(stress_dates)
              /\ \A j, k \in 1..Len(stress_dates) : j < k => stress_dates[j] < stress_dates[k]

\* a complete series in which a return that is not the smallest sits exactly
\* on the threshold, and two of the three dates are stress dates
C11_Witness ==
    /\ pc = "stress_returned"
    /\ Len(portfolio_returns) = MaxRows
    /\ \A i \in 1..Len(portfolio_returns) : ~IsNaN(portfolio_returns[i])
    /\ \E i, j \in 1..Len(portfolio_returns) :
          /\ portfolio_returns[i] = Quantile(portfolio_returns, quantile)
          /\ ~IsNaN(portfolio_returns[j])
          /\ ~Leq(portfolio_returns[i], portfolio_returns[j])
    /\ Len(stress_dates) = 2

\* ------------------------------------ claims: compute_correlation_matrices
\* the rows of a table whose date is one of the given dates
RowsAmong(df, dates) ==
    Loc(df, AscendingOf(Range(df.index) \cap Range(dates)))

\* C12: compute_correlation_matrices raises the empty-data error whenever no
\* row of the returns has a date in stress_dates (stress_dates empty, or
\* disjoint from the index); otherwise it returns the correlation of the
\* whole table and that of the rows restricted to stress_dates.
C12_EmptyStressSubsetRaises ==
    pc \in {"corr_raised", "corr_returned"} =>
        IF Range(asset_returns.index) \cap Range(stress_dates) = {}
          THEN /\ pc = "corr_raised"
               /\ error = "ValueError: No returns data for stress period"
          ELSE /\ pc = "corr_returned"
               /\ normal_corr = Corr(asset_returns)
               /\ stress_corr = Corr(RowsAmong(asset_returns, stress_dates))

\* ----------------------------------------- claims: stress_loss_attribution
\* the sum over the given dates of return * weight for one ticker
RECURSIVE SumOverDates(_, _, _, _)
SumOverDates(returns, c, w, dates) ==
    IF dates = <<>> THEN Num(0, 1)
    ELSE Add(Mul(returns.val[c][PositionOf(returns.index, Head(dates), 1)], w),
             SumOverDates(returns, c, w, Tail(dates)))

\* C13: stress_loss_attribution returns one entry per ticker column of the
\* returns, the sum over the stress dates of return * weight of that ticker,
\* in ascending order of value; with an empty stress_dates it raises no
\* error and every contribution is zero.
C13_ContributionsSummedAndSorted ==
    /\ (pc \in {"attribution_raised", "attribution_returned"} /\ stress_dates = <<>>)
          => /\ pc = "attribution_returned"
             /\ \A i \in DOMAIN stress_contribution :
                    stress_contribution[i].value = Num(0, 1)
    /\ pc = "attribution_returned" =>
          /\ Len(stress_contribution) = Len(asset_returns.columns)
          /\ {stress_contribution[i].ticker : i \in DOMAIN stress_contribution}
                = Range(asset_returns.columns)
          /\ \A i \in DOMAIN stress_contribution :
                stress_contribution[i].ticker \in DOMAIN weights =>
                    stress_contribution[i].value =
                        SumOverDates(asset_returns, stress_contribution[i].ticker,
                                     weights[stress_contribution[i].ticker], stress_dates)
          /\ \A i, j \in DOMAIN stress_contribution :
                i < j => Leq(stress_contribution[i].value, stress_contribution[j].value)

C13_Witness ==
    /\ pc = "attribution_returned"
    /\ Len(stress_dates) >= 2
    /\ Len(stress_dates) < Len(asset_returns.index)
    /\ Len(stress_contribution) = 2
    /\ stress_contribution[1].ticker = "B"
    /\ stress_contribution[1].value = Num(0 - 100, 1)
    /\ stress_contribution[2].value = Num(50, 1)

\* ---------------------------------------- claims: display_time_horizon_tab
HorizonLabels(df) == {df[i].Horizon : i \in DOMAIN df}

\* C14: in the time-horizon step every horizon at least as long as the
\* number of available observations is excluded before horizon_risk_summary
\* is called, the summary has a row exactly for the strictly shorter
\* horizons, and the summary is not called when no horizon fits.
C14_LongHorizonsExcluded ==
    pc \in {"horizon_warned", "horizon_raised", "horizon_displayed"} =>
        /\ \A i \in DOMAIN filtered_horizons : filtered_horizons[i].days < available_days
        /\ HorizonLabels(horizon_df) =
              {TIME_HORIZONS[i].label : i \in {j \in DOMAIN TIME_HORIZONS :
                                                 TIME_HORIZONS[j].days < available_days}}
        /\ Len(horizon_df) = Cardinality(HorizonLabels(horizon_df))
        /\ (\A i \in DOMAIN TIME_HORIZONS : TIME_HORIZONS[i].days >= available_days)
              => (pc = "horizon_warned" /\ horizon_df = <<>>)

C14_Witness ==
    /\ pc \in {"horizon_raised", "horizon_displayed"}
    /\ available_days = 252
    /\ HorizonLabels(horizon_df) = {"1 Month", "6 Months"}

\* C20: whenever display_time_horizon_tab calls horizon_risk_insight, the
\* table it passes has a "6 Months" row and a "3 Years" row, so the lookup
\* does not fail.
C20_InsightRowsPresent ==
    pc \in {"horizon_raised", "horizon_displayed"} =>
        /\ {"6 Months", "3 Years"} \subseteq HorizonLabels(horizon_df)
        /\ pc = "horizon_displayed"

Distinct(s) == \A i, j \in DOMAIN s : i # j => s[i] # s[j]

\* the elements of s that are in S, in the order of s
RECURSIVE Restrict(_, _)
Restrict(s, S) ==
    IF s = <<>> THEN <<>>
    ELSE (IF Head(s) \in S THEN <<Head(s)>> ELSE <<>>) \o Restrict(Tail(s), S)

\* C17: for distinct tickers, at every point of fetch_price_data the working
\* list and the dropped list are disjoint and hold exactly the initial
\* tickers, the working list keeps the initial order, no ticker is dropped
\* twice, and the columns of a returned table are the working list.
C17_WorkingAndDroppedPartition ==
    (Distinct(tickers) /\ pc \in {"fetch_loop", "returned", "raised"}) =>
        /\ Range(working_tickers) \cap Range(dropped_tickers) = {}
        /\ Range(working_tickers) \cup Range(dropped_tickers) = Range(tickers)
        /\ working_tickers = Restrict(tickers, Range(working_tickers))
        /\ Distinct(dropped_tickers)
        /\ pc = "returned" => cleaned_prices.columns = working_tickers

C17_Witness ==
    /\ pc = "returned"
    /\ tickers = <<"A", "B", "C">>
    /\ dropped_tickers = <<"B">>
    /\ working_tickers = <<"A", "C">>
    /\ cleaned_prices.columns = <<"A", "C">>

\* ------------------------------------------ claims: run_portfolio_analysis
\* the sum of the contributions over the tickers
RECURSIVE SumContributions(_)
SumContributions(contribution) ==
    IF contribution = <<>> THEN Num(0, 1)
    ELSE Add(Head(contribution).value, SumContributions(Tail(contribution)))

\* the sum of a series over the given dates
RECURSIVE SumAtDates(_, _, _)
SumAtDates(series, index, dates) ==
    IF dates = <<>> THEN Num(0, 1)
    ELSE Add(series[PositionOf(index, Head(dates), 1)],
             SumAtDates(series, index, Tail(dates)))

\* C15: in run_portfolio_analysis the stress contributions sum over the
\* tickers to the sum over the stress dates of the portfolio return.
C15_ContributionsSumToPortfolioLoss ==
    pc = "attribution_returned" =>
        SumContributions(stress_contribution)
           = SumAtDates(portfolio_returns, returns_dates, stress_dates)

NoMissing(series) == \A i \in DOMAIN series : ~IsNaN(series[i])

\* the dates on which a series is at its minimum
ArgMinDates(series, dates) ==
    {dates[i] : i \in {j \in DOMAIN series : \A k \in DOMAIN series : Leq(series[j], series[k])}}

\* C18: for a non-empty portfolio-return series without missing values and
\* any quantile, identify_stress_periods returns a non-empty set that holds
\* every date of minimum return, so compute_correlation_matrices called with
\* it in run_portfolio_analysis never raises the empty-stress-subset error.
C18_StressDatesNeverEmpty ==
    /\ (/\ pc \in {"analysis_correlation", "analysis_attribution", "corr_raised",
                   "attribution_returned", "attribution_raised"}
        /\ portfolio_returns # <<>>
        /\ NoMissing(portfolio_returns))
          => /\ stress_dates # <<>>
             /\ ArgMinDates(portfolio_returns, returns_dates) \subseteq Range(stress_dates)
    /\ (portfolio_returns # <<>> /\ NoMissing(portfolio_returns)) => pc # "stress_raised"
    /\ pc # "corr_raised"
    /\ error # "ValueError: No returns data for stress period"

C18_Witness ==
    /\ pc = "analysis_attribution"
    /\ quantile = Num(0, 1)
    /\ Len(portfolio_returns) = 3
    /\ NoMissing(portfolio_returns)
    /\ Cardinality(ArgMinDates(portfolio_returns, returns_dates)) = 2
    /\ Range(stress_dates) = ArgMinDates(portfolio_returns, returns_dates)
    /\ Len(asset_returns.columns) = 2

\* ------------------------------------------- claims: the session portfolio
\* C19: after any add-asset submissions and editor updates the session
\* portfolio has no two records whose tickers are equal ignoring case, every
\* record has an amount > 0 and a non-blank ticker, and build_portfolio on a
\* non-empty session portfolio does not fail its validation.
C19_SessionPortfolioValid ==
    pc \in {"session", "session_raised"} =>
        /\ \A i, j \in DOMAIN session_portfolio :
              i # j => Upper(session_portfolio[i].ticker) # Upper(session_portfolio[j].ticker)
        /\ \A i \in DOMAIN session_portfolio :
              /\ ~IsNaN(session_portfolio[i].amount)
              /\ session_portfolio[i].amount[1] > 0
              /\ session_portfolio[i].ticker # NoTicker
              /\ Strip(session_portfolio[i].ticker) # ""
        /\ ~BuildFails(session_portfolio)
        /\ pc = "session"

\* an editor row "a " beside the added ticker A
C19_Witness ==
    /\ pc = "session"
    /\ Len(session_portfolio) = 2
    /\ session_portfolio[1].ticker = "a "
    /\ session_portfolio[2].ticker = "A"
    /\ Len(portfolio_df) = 2

====
